---- MODULE Spec2Model ----
(***************************************************************************)
(* wrds2pg: change detection and streaming ingest of one remote SAS data   *)
(* set into a PostgreSQL table (wrds_update), a Parquet file               *)
(* (wrds_update_pq) or a gzipped CSV file (wrds_update_csv), and the       *)
(* scoped remote/local SAS session they all run on (get_process_stream).   *)
(*                                                                         *)
(* One behaviour is a sequence of invocations against one sink.  An        *)
(* invocation is a chain of steps; `pc` is the position in the code, `st`  *)
(* the state of the get_process_stream scope that is currently open, and   *)
(* `ops` the log of what the invocation has issued so far.                 *)
(*                                                                         *)
(* Strings the code compares or parses are records here:                   *)
(*   a marker string is [isNone, pre, ts, cont]: the prefix, the           *)
(*   wall-clock time it carries and the continuation text appended to it;  *)
(*   Python's None has isNone = TRUE, the empty string has pre = "".       *)
(* Time is counted in hours: `ts` is a wall-clock hour of the day on which *)
(* America/Chicago switches to daylight time, an mtime is an hour of UTC.  *)
(***************************************************************************)
EXTENDS Integers, Sequences, FiniteSets, TLC

(* ------------------------------ bounds -------------------------------- *)

\* invocations per behaviour
MaxCalls == 2
\* record batches the exported data set is read in (0: header line only)
MaxBatches == 2
\* largest exit status a SAS session reports
MaxExit == 5

\* columns in a metadata report
MaxCols == 2
\* latest wall-clock hour a marker names, on the day of the switch
MaxWall == 4
\* lines in a PROC CONTENTS report
MaxLines == 3
\* characters in a schema name, in a table name
MaxSchemaLen == 8
MaxTableLen == 30

(* ------------------------- program constants -------------------------- *)

\* `if exit_status > 4`
ExitTolerance == 4
\* `new_table[0:min(len(new_table), 32)]`: the longest name of a SAS data set
NameLimit == 32
\* ZoneInfo("America/Chicago"): hours behind UTC in standard time
StdOffset == 6
\* ZoneInfo("America/Chicago"): hours behind UTC in daylight time
DstOffset == 5
\* ZoneInfo("America/Chicago"): the wall-clock hour skipped when daylight
\* time begins (02:00 standard becomes 03:00 daylight)
GapWall == 2
\* the clock of the host when a file is written: later than every
\* modification time a report read earlier can carry
Now == 50

(* ------------------------------ markers ------------------------------- *)

None == [isNone |-> TRUE, pre |-> "", ts |-> -1, cont |-> <<>>]

EmptyString == [isNone |-> FALSE, pre |-> "", ts |-> -1, cont |-> <<>>]

LastModified(ts) ==
    [isNone |-> FALSE, pre |-> "Last modified: ", ts |-> ts, cont |-> <<>>]

\* Python truthiness of an Optional[str]
Truthy(s) == ~s.isNone /\ s # EmptyString

(* --------------------- the PROC CONTENTS report ----------------------- *)

\* A report line: whether its text begins with "Last Modified", the time
\* that follows the label, whether it contains "Protection", its text
\* without the blanks around it, whether blanks precede the text, and how
\* the line is laid out: "columns" when blanks, the value, two or more
\* blanks and a second column follow the label; "wide" when three or more
\* blanks and the value alone follow it; "narrow" when fewer blanks and the
\* value alone follow it.
TitleLine == [lastmod |-> FALSE, prot |-> FALSE, ts |-> -1, txt |-> "Data Set Name",
              form |-> "columns", indent |-> FALSE]

LastModLine(w) == [lastmod |-> TRUE, prot |-> FALSE, ts |-> w, txt |-> "Last Modified",
                   form |-> "columns", indent |-> FALSE]

ProtectionLine == [lastmod |-> FALSE, prot |-> TRUE, ts |-> -1, txt |-> "Protection",
                   form |-> "columns", indent |-> FALSE]

EngineLine == [lastmod |-> FALSE, prot |-> FALSE, ts |-> -1, txt |-> "Engine V9",
               form |-> "columns", indent |-> FALSE]

\* a Last Modified line with nothing after its value
LastModLineAlone(w, form) == [LastModLine(w) EXCEPT !.form = form]

\* a Last Modified line in two columns that begins with blanks
IndentedLastModLine(w) == [LastModLine(w) EXCEPT !.indent = TRUE]

\* `re.sub(r"^Last Modified\s+(.*?)\s{2,}.*$", r"Last modified: \1", line).rstrip()`:
\* the pattern needs two blanks after the value; with the value alone on
\* the line it matches only by taking the blanks before the value for
\* them (the value is lost), or not at all (the line is left as it is)
ParseLastModified(line) ==
    IF line.form = "columns" THEN LastModified(line.ts)
    ELSE IF line.form = "wide"
         THEN [isNone |-> FALSE, pre |-> "Last modified:", ts |-> -1, cont |-> <<>>]
         ELSE [isNone |-> FALSE, pre |-> "Last Modified ", ts |-> line.ts, cont |-> <<>>]

\* The report prints the wall clock of the remote host, which never shows
\* the skipped hour: 1 is an hour of standard time, 3 one of daylight time.
Reports ==
    { <<>>,
      <<TitleLine, EngineLine>>,
      <<TitleLine, LastModLine(1), ProtectionLine>>,
      <<TitleLine, LastModLine(3), ProtectionLine>>,
      <<TitleLine, LastModLine(1), EngineLine>> }

\* the loop of get_modified_str over the report lines; the line after a
\* Last Modified line is stripped before `re.match(r"Last Modified", line)`
RECURSIVE ScanReport(_, _, _, _)
ScanReport(contents, i, modified, next_row) ==
    IF i > Len(contents) THEN modified
    ELSE LET line == contents[i]
             appended ==
                 IF next_row /\ ~line.prot
                 THEN [isNone |-> FALSE,
                       pre |-> (IF modified.isNone THEN "" ELSE modified.pre),
                       ts |-> (IF modified.isNone THEN -1 ELSE modified.ts),
                       cont |-> (IF modified.isNone THEN <<>> ELSE modified.cont)
                                   \o <<line.txt>>]
                 ELSE modified
         IN  IF line.lastmod /\ (~line.indent \/ next_row)
             THEN ScanReport(contents, i + 1, ParseLastModified(line), TRUE)
             ELSE ScanReport(contents, i + 1, appended, FALSE)

\* an empty report answered with the empty string
get_modified_str_blank(contents) ==
    IF contents = <<>> THEN EmptyString
    ELSE LET modified == ScanReport(contents, 1, None, FALSE)
         IN  IF ~Truthy(modified) THEN None ELSE modified

get_modified_str(contents) ==
    IF contents = <<>> THEN None
    ELSE LET modified == ScanReport(contents, 1, None, FALSE)
         IN  IF ~Truthy(modified) THEN None ELSE modified

(* -------------------- markers kept as a file mtime -------------------- *)

\* datetime.replace(tzinfo=_WRDS_TZ).astimezone(timezone.utc): a wall-clock
\* hour of America/Chicago to an hour of UTC; a wall-clock hour in the gap
\* is read with the offset in force before the switch (fold = 0)
ChicagoToUtc(wall) ==
    IF wall <= GapWall THEN wall + StdOffset ELSE wall + DstOffset

\* astimezone(ZoneInfo("America/Chicago")): an hour of UTC to the wall
\* clock of America/Chicago
UtcToChicago(t) ==
    IF t < GapWall + StdOffset THEN t - StdOffset ELSE t - DstOffset

\* modified_encode: [ok, mtime]; ok = FALSE is the ValueError of a string
\* without the prefix or with text after the time
modified_encode(last_modified) ==
    IF last_modified.pre # "Last modified: " \/ last_modified.cont # <<>>
    THEN [ok |-> FALSE, mtime |-> -1]
    ELSE [ok |-> TRUE, mtime |-> ChicagoToUtc(last_modified.ts)]

\* get_modified_csv / modified_decode: datetime.fromtimestamp(mtime) is the
\* naive wall clock of the host (host_offset hours ahead of UTC), and
\* astimezone reads a naive time as host time again
get_modified_csv(mtime, host_offset) ==
    LET utc_dt == mtime + host_offset
    IN  LastModified(UtcToChicago(utc_dt - host_offset))

(* ------------------------ get_process_stream -------------------------- *)

IdleStream ==
    [purpose |-> "none", mode |-> "none", phase |-> "idle",
     client |-> "none", proc |-> "none", out |-> "none", err |-> "none",
     exit |-> -1, bodyExc |-> "none", raised |-> "none"]

\* the credential looked at first
SelectModeRemoteFirst(has_fpath, has_wrds_id) ==
    IF has_wrds_id THEN "remote" ELSE IF has_fpath THEN "local" ELSE "none"

\* `if fpath is not None: ... elif wrds_id is not None: ... else: raise`
SelectMode(has_fpath, has_wrds_id) ==
    IF has_fpath THEN "local" ELSE IF has_wrds_id THEN "remote" ELSE "none"

\* a call of get_process_stream about to run its first statement
NewStream(purpose, has_fpath, has_wrds_id) ==
    [IdleStream EXCEPT !.purpose = purpose,
                       !.mode = SelectMode(has_fpath, has_wrds_id),
                       !.phase = "enter"]

\* the client left open
CloseClientSkipped(s) == s

\* `finally: client.close()`
CloseClient(s) == [s EXCEPT !.client = "closed"]

\* `text_stdout.close(); text_stderr.close()`
CloseRemoteStreams(s) == [s EXCEPT !.out = "closed", !.err = "closed"]

\* the finally block of the local branch; still_running is proc.poll() is None
ReleaseLocal(s, still_running) ==
    [s EXCEPT !.out = "closed", !.err = "closed",
              !.proc = IF still_running THEN "terminated" ELSE "exited"]

\* the remote branch leaves without an exception
RemoteExitErrorSwallowed(exit_status, body_exc) == "none"

\* the exception the remote branch leaves with, given the exit status and
\* the exception of the with-body: the f-string of the RuntimeError reads
\* `err`, a local that only the local branch assigns
RemoteExitError(exit_status, body_exc) ==
    IF exit_status > ExitTolerance THEN "UnboundLocalError" ELSE body_exc

\* the exception the local branch leaves with after proc.wait()
LocalExitError(rc) == IF rc # 0 THEN "RuntimeError" ELSE "none"

(* ---------------------- the column-metadata report -------------------- *)

\* what csv.DictReader makes of the metadata CSV: no row at all, rows
\* without a name column, or one row per column of the data set
MetaReports ==
    { <<>>,
      <<[type |-> 1, format |-> "", formatl |-> 8, formatd |-> 0]>>,
      <<[name |-> "ID", type |-> 1, format |-> "", formatl |-> 8, formatd |-> 0],
        [name |-> "Name", type |-> 2, format |-> "", formatl |-> 0, formatd |-> 0]>> }

\* the two checks of get_table_metadata / get_table_sql on the parsed rows
MetadataError(rows) ==
    IF rows = <<>> THEN "RuntimeError"
    ELSE IF "name" \notin DOMAIN rows[1] THEN "RuntimeError"
    ELSE "none"

(* ------------------------------ sinks --------------------------------- *)

\* a marker persisted by an earlier sync of an older version of the data
OldMarker == LastModified(0)

NoTable == [schema |-> FALSE, roles |-> {}, table |-> FALSE,
            comment |-> EmptyString, rows |-> "none"]

NoFile == [exists |-> FALSE, closed |-> FALSE, marker |-> EmptyString, batches |-> 0]

NoCsv == [exists |-> FALSE, mtime |-> -1, data |-> "none"]

\* get_table_comment: '' when the table does not exist or has no comment
get_table_comment(db) == IF db.table THEN db.comment ELSE EmptyString

\* get_modified_pq: '' when there is no file or no last_modified key
get_modified_pq(file) == IF file.exists THEN file.marker ELSE EmptyString

\* `get_modified_csv(csv_file) if csv_file.exists() else ""`
csv_modified(file, host_offset) ==
    IF file.exists THEN get_modified_csv(file.mtime, host_offset) ELSE EmptyString

\* the comparison inverted
UpToDateInverted(remote_marker, sink_marker, forced) ==
    remote_marker # sink_marker /\ ~forced

\* force left out of the test
UpToDateIgnoringForce(remote_marker, sink_marker, forced) ==
    remote_marker = sink_marker

\* `if modified == comment and not force` (and the same test on pq_modified
\* and csv_modified): the sink is up to date, the call returns False
UpToDate(remote_marker, sink_marker, forced) ==
    remote_marker = sink_marker /\ ~forced

(* ------------------------------ state --------------------------------- *)


VARIABLES
    kind,       \* "pg", "pq", "csv": the orchestrator; "stream": a direct use of get_process_stream
    callNo,     \* invocations started so far
    force,      \* the force argument
    has_wrds_id,\* wrds_id given or WRDS_ID set
    has_fpath,  \* fpath given (direct use of get_process_stream only)
    has_target, \* the sink is given or set: engine or host and dbname; data_dir
    create_roles, \* the create_roles argument (wrds_update)
    host_offset,\* time zone of the host: hours ahead of UTC
    report,     \* what PROC CONTENTS prints for the remote data set
    metaRows,   \* what the column-metadata report of the data set parses to
    nbatches,   \* record batches in the export of the data set
    pg,         \* the database: schema, roles, table, its comment and rows
    pqFile,     \* the Parquet file at the target path
    csvFile,    \* the .csv.gz file at the target path
    tmpFile,    \* the temporary .csv.gz of wrds_update_pq exists
    dirMade,    \* the schema directory under data_dir exists
    persisted,  \* the sink's marker as this invocation read it
    written,    \* batches csv_to_pq_arrow_stream has read from its reader
    writer,     \* its ParquetWriter is open
    pending,    \* exception on its way through a finally block
    prev,       \* the previous invocation: its result and whether the report has changed since
    pc,         \* position in the invocation
    st,         \* the get_process_stream scope
    contents,   \* proc_contents' return value
    modified,   \* the remote marker of this invocation
    ops,        \* operations issued by this invocation
    result,     \* "none", "True", "False", "raised"
    exc         \* the exception that left the invocation

\* two invocations of wrds_update at work on one database at the same time
VARIABLES
    catalog0,   \* the schemas and roles of the database before the two began
    catalog,    \* the schemas, roles and tables of the database now
    inv         \* the two invocations: position, create_roles, the roles it
                \* has found or made, result

concurrent == <<catalog0, catalog, inv>>

\* one call of a function that has no state of its own
VARIABLES
    call,       \* the function called and its arguments
    ret         \* what it returned, once it has

applied == <<call, ret>>

\* the state of one sequence of invocations against one sink
sync_vars == <<kind, callNo, force, has_wrds_id, has_fpath, has_target, create_roles,
               host_offset, report, metaRows, nbatches, pg, pqFile, csvFile,
               tmpFile, dirMade, persisted, written, writer, pending, prev,
               pc, st, contents, modified, ops, result, exc>>

vars == <<sync_vars, concurrent, applied>>

args == <<force, has_wrds_id, has_fpath, has_target>>
env == <<kind, create_roles, host_offset, report, metaRows, nbatches, concurrent, applied>>
sinks == <<pg, pqFile, csvFile, tmpFile, dirMade>>
loop == <<written, writer, pending>>
calls == <<callNo, prev>>

Kinds == {"pg", "pq", "csv", "stream"}

\* time zones of the host, in hours ahead of UTC
HostOffsets == {0, 10}

\* the markers an earlier sync can have left in the sink
InitialMarkers(r) ==
    {OldMarker} \cup (IF get_modified_str(r).isNone THEN {} ELSE {get_modified_str(r)})

InitialTables(r, roles) ==
    {NoTable} \cup
    { [schema |-> TRUE, roles |-> roles, table |-> TRUE, comment |-> m, rows |-> "full"] :
        m \in InitialMarkers(r) }

\* a file carrying the marker of the current data set holds its batches
InitialFiles(r, n) ==
    {NoFile} \cup
    { [exists |-> TRUE, closed |-> TRUE, marker |-> m,
       batches |-> IF m = OldMarker THEN 1 ELSE n] :
        m \in {x \in InitialMarkers(r) : x = OldMarker \/ n >= 1} }

InitialCsvs(r) ==
    {NoCsv} \cup
    { [exists |-> TRUE, mtime |-> modified_encode(m).mtime, data |-> "full"] :
        m \in {x \in InitialMarkers(r) : modified_encode(x).ok} }

\* no invocation has been called yet
NotCalled == [pc |-> "idle", create_roles |-> FALSE, saw |-> FALSE,
              ensured |-> {}, result |-> "none", exc |-> "none"]

\* nothing runs concurrently
NoneConcurrent ==
    /\ catalog0 = [schema |-> FALSE, roles |-> {}, tables |-> {}]
    /\ catalog = catalog0
    /\ inv = <<NotCalled, NotCalled>>

\* no function is called on its own
NoneApplied ==
    /\ call = [fn |-> "none"]
    /\ ret = [done |-> FALSE]

Init ==
    /\ NoneConcurrent
    /\ NoneApplied
    /\ kind \in Kinds
    /\ callNo = 0
    /\ force = FALSE
    /\ has_wrds_id = TRUE
    /\ has_fpath = FALSE
    /\ has_target = TRUE
    /\ create_roles \in (IF kind = "pg" THEN BOOLEAN ELSE {TRUE})
    /\ host_offset \in (IF kind = "csv" THEN HostOffsets ELSE {0})
    /\ report \in (IF kind = "stream" THEN {<<>>} ELSE Reports)
    /\ metaRows \in (IF kind = "stream" THEN {<<>>} ELSE MetaReports)
    /\ nbatches \in (IF kind = "pq" THEN 0..MaxBatches ELSE {0})
    /\ pg \in (IF kind = "pg"
               THEN InitialTables(report, IF create_roles THEN {"owner", "access"} ELSE {})
               ELSE {NoTable})
    /\ pqFile \in (IF kind = "pq" THEN InitialFiles(report, nbatches) ELSE {NoFile})
    /\ csvFile \in (IF kind = "csv" THEN InitialCsvs(report) ELSE {NoCsv})
    /\ tmpFile = FALSE
    /\ dirMade = FALSE
    /\ persisted = EmptyString
    /\ written = 0
    /\ writer = FALSE
    /\ pending = "none"
    /\ prev = [result |-> "none", changed |-> FALSE]
    /\ pc = "idle"
    /\ st = IdleStream
    /\ contents = <<>>
    /\ modified = None
    /\ ops = <<>>
    /\ result = "none"
    /\ exc = "none"

Log(entries) == ops' = ops \o entries

\* the invocation ends: returns res ("True"/"False") or raises e
Finish(res, e) ==
    /\ pc' = "done"
    /\ result' = res
    /\ exc' = e

\* an invocation of an orchestrator begins
Begin(k) ==
    /\ pc = "idle"
    /\ kind = k
    /\ callNo < MaxCalls
    /\ callNo' = callNo + 1
    /\ contents' = <<>>
    /\ modified' = None
    /\ UNCHANGED <<env, loop, prev>>

\* the credential is resolved alone
ConfigurationErrorCredentialOnly(has_id, has_tgt) ==
    IF ~has_id THEN "ValueError" ELSE "none"

\* the orchestrators resolve their configuration: wrds_id or WRDS_ID, then
\* the sink (make_engine: host and dbname; DATA_DIR; CSV_DIR)
ConfigurationError(has_id, has_tgt) ==
    IF ~has_id THEN "ValueError"
    ELSE IF ~has_tgt THEN "ValueError"
    ELSE "none"

(* --------------------- steps of get_process_stream -------------------- *)

\* choose the transport and start it
StreamEnter ==
    /\ st.phase = "enter"
    /\ \/ /\ st.mode = "local"
          /\ st' = [st EXCEPT !.proc = "running", !.out = "open",
                              !.err = "open", !.phase = "writing"]
          /\ Log(<< <<"open", st.purpose>> >>)
       \/ /\ st.mode = "remote"
          /\ st' = [st EXCEPT !.client = "open", !.phase = "writing"]
          /\ Log(<< <<"open", st.purpose>> >>)
       \/ /\ st.mode = "remote"
          /\ st' = [st EXCEPT !.client = "new", !.raised = "SSHException",
                              !.phase = "exited"]
          /\ UNCHANGED ops
       \/ /\ st.mode = "none"
          /\ st' = [st EXCEPT !.raised = "ValueError", !.phase = "exited"]
          /\ UNCHANGED ops
    /\ UNCHANGED <<args, env, sinks, loop, calls, persisted, pc, contents,
                   modified, result, exc>>

\* send the script and yield the output stream
StreamWrite ==
    /\ st.phase = "writing"
    /\ \/ /\ st' = [st EXCEPT !.out = "open", !.err = "open", !.phase = "yielded"]
          /\ UNCHANGED ops
       \/ /\ st.mode = "remote"
          /\ st' = [CloseClient(st) EXCEPT !.raised = "OSError", !.phase = "exited"]
          /\ Log(<< <<"close", st.purpose>> >>)
       \/ /\ st.mode = "local"
          /\ \E still_running \in BOOLEAN :
                st' = [ReleaseLocal(st, still_running) EXCEPT
                          !.raised = "OSError", !.phase = "exited"]
          /\ Log(<< <<"close", st.purpose>> >>)
    /\ UNCHANGED <<args, env, sinks, loop, calls, persisted, pc, contents,
                   modified, result, exc>>

\* what runs when the with-body is left
StreamLeave ==
    /\ st.phase = "leaving"
    /\ \/ /\ st.mode = "remote"
          /\ \E exit_status \in 0..MaxExit :
                st' = [CloseClient(CloseRemoteStreams(st)) EXCEPT
                          !.exit = exit_status,
                          !.raised = RemoteExitError(exit_status, st.bodyExc),
                          !.phase = "exited"]
       \/ /\ st.mode = "local"
          /\ st.bodyExc = "none"
          /\ \E rc \in 0..MaxExit :
                st' = [ReleaseLocal(st, FALSE) EXCEPT
                          !.exit = rc,
                          !.raised = LocalExitError(rc),
                          !.phase = "exited"]
       \/ /\ st.mode = "local"
          /\ st.bodyExc # "none"
          /\ \E still_running \in BOOLEAN :
                st' = [ReleaseLocal(st, still_running) EXCEPT
                          !.raised = st.bodyExc, !.phase = "exited"]
    /\ Log(<< <<"close", st.purpose>> >>)
    /\ UNCHANGED <<args, env, sinks, loop, calls, persisted, pc, contents,
                   modified, result, exc>>

(* --------------- a direct use of get_process_stream ------------------- *)

\* `with get_process_stream(sas_code, wrds_id=..., fpath=...) as stream:`
StreamCall ==
    /\ Begin("stream")
    /\ has_fpath' \in BOOLEAN
    /\ has_wrds_id' \in BOOLEAN
    /\ st' = NewStream("sas_to_pandas", has_fpath', has_wrds_id')
    /\ pc' = "use"
    /\ ops' = <<>>
    /\ result' = "none"
    /\ exc' = "none"
    /\ UNCHANGED <<force, has_target, sinks, persisted>>

\* the with-body reads the stream: it ends or raises
StreamBody ==
    /\ pc = "use"
    /\ st.phase = "yielded"
    /\ \E e \in {"none", "BodyError"} :
          st' = [st EXCEPT !.bodyExc = e, !.phase = "leaving"]
    /\ UNCHANGED <<args, env, sinks, loop, calls, persisted, pc, contents,
                   modified, ops, result, exc>>

\* control is back in the caller of the with statement
StreamReturn ==
    /\ pc = "use"
    /\ st.phase = "exited"
    /\ IF st.raised = "none" THEN Finish("True", "none")
                             ELSE Finish("raised", st.raised)
    /\ UNCHANGED <<args, env, sinks, loop, calls, persisted, st, contents,
                   modified, ops>>

(* ------------------- sessions the orchestrators run ------------------- *)

\* proc_contents: `return stream.readlines()`
ContentsBody ==
    /\ pc = "contents"
    /\ st.phase = "yielded"
    /\ \/ /\ contents' = report
          /\ st' = [st EXCEPT !.phase = "leaving"]
       \/ /\ contents' = contents
          /\ st' = [st EXCEPT !.bodyExc = "BodyError", !.phase = "leaving"]
    /\ UNCHANGED <<args, env, sinks, loop, calls, persisted, pc, modified,
                   ops, result, exc>>

\* get_table_metadata and get_table_sql: `text = stream.read()`
MetadataBody ==
    /\ pc \in {"pg_meta", "pq_meta", "pg_sql", "pq_sql", "csv_sql"}
    /\ st.phase = "yielded"
    /\ \E e \in {"none", "BodyError"} :
          st' = [st EXCEPT !.bodyExc = e, !.phase = "leaving"]
    /\ UNCHANGED <<args, env, sinks, loop, calls, persisted, pc, contents,
                   modified, ops, result, exc>>

\* the exception get_table_metadata / get_table_sql ends with once its
\* session is over: the session's own, or that of the parsed rows
MetadataOutcome == IF st.raised # "none" THEN st.raised ELSE MetadataError(metaRows)

(* ------------------------------ wrds_update --------------------------- *)

\* resolve the configuration, read the table comment, ask for the report
UpdateStart ==
    /\ Begin("pg")
    /\ force' \in BOOLEAN
    /\ has_wrds_id' \in BOOLEAN
    /\ has_target' \in BOOLEAN
    /\ UNCHANGED <<has_fpath, sinks>>
    /\ IF ConfigurationError(has_wrds_id', has_target') # "none"
       THEN /\ Finish("raised", ConfigurationError(has_wrds_id', has_target'))
            /\ ops' = <<>>
            /\ UNCHANGED <<persisted, st>>
       ELSE /\ persisted' = get_table_comment(pg)
            /\ ops' = << <<"marker", "read">> >>
            /\ st' = NewStream("proc_contents", FALSE, TRUE)
            /\ pc' = "contents"
            /\ result' = "none"
            /\ exc' = "none"

\* steps 2 and 3 of wrds_update: the remote marker and the decision
UpdateCheck ==
    /\ pc = "contents"
    /\ kind = "pg"
    /\ st.phase = "exited"
    /\ UNCHANGED <<args, env, sinks, loop, calls, persisted, contents, ops>>
    /\ IF st.raised # "none"
       THEN Finish("raised", st.raised) /\ UNCHANGED <<modified, st>>
       ELSE /\ modified' = get_modified_str(contents)
            /\ IF ~Truthy(modified')
               THEN Finish("False", "none") /\ UNCHANGED st
               ELSE IF UpToDate(modified', persisted, force)
               THEN Finish("False", "none") /\ UNCHANGED st
               ELSE pc' = "pg_schema" /\ st' = IdleStream /\ UNCHANGED <<result, exc>>

\* wrds_to_pg: make sure the schema (and its roles) exist.  Here and below
\* a statement that the database refuses raises out of process_sql, its
\* transaction rolled back.
EnsureSchema ==
    /\ pc = "pg_schema"
    /\ \/ /\ IF ~pg.schema
             THEN /\ pg' = [pg EXCEPT !.schema = TRUE,
                                      !.roles = IF create_roles THEN {"owner", "access"} ELSE @]
                  /\ Log(<< <<"sql", "CREATE SCHEMA">> >>)
             ELSE UNCHANGED <<pg, ops>>
          /\ pc' = "pg_drop"
          /\ UNCHANGED <<result, exc>>
       \/ /\ ~pg.schema
          /\ Log(<< <<"sql", "CREATE SCHEMA">> >>)
          /\ Finish("raised", "DatabaseError")
          /\ UNCHANGED pg
    /\ UNCHANGED <<args, env, pqFile, csvFile, tmpFile, dirMade, loop, calls,
                   persisted, st, contents, modified>>

\* wrds_to_pg: drop the table, then ask for the column metadata
DropTable ==
    /\ pc = "pg_drop"
    /\ Log(<< <<"sql", "DROP TABLE">> >>)
    /\ \/ /\ pg' = [pg EXCEPT !.table = FALSE, !.comment = EmptyString, !.rows = "none"]
          /\ st' = NewStream("get_table_metadata", FALSE, TRUE)
          /\ pc' = "pg_meta"
          /\ UNCHANGED <<result, exc>>
       \/ /\ Finish("raised", "DatabaseError")
          /\ UNCHANGED <<pg, st>>
    /\ UNCHANGED <<args, env, pqFile, csvFile, tmpFile, dirMade, loop, calls,
                   persisted, contents, modified>>

\* wrds_to_pg: CREATE TABLE from the metadata, then get_wrds_process_stream
\* builds the export script, for which get_wrds_sas calls get_table_sql
CreateTable ==
    /\ pc = "pg_meta"
    /\ st.phase = "exited"
    /\ UNCHANGED <<args, env, pqFile, csvFile, tmpFile, dirMade, loop, calls,
                   persisted, contents, modified>>
    /\ IF MetadataOutcome # "none"
       THEN Finish("raised", MetadataOutcome) /\ UNCHANGED <<pg, ops, st>>
       ELSE /\ Log(<< <<"sql", "CREATE TABLE">> >>)
            /\ \/ /\ pg' = [pg EXCEPT !.table = TRUE, !.comment = EmptyString,
                                       !.rows = "none"]
                  /\ st' = NewStream("get_table_sql", FALSE, TRUE)
                  /\ pc' = "pg_sql"
                  /\ UNCHANGED <<result, exc>>
               \/ /\ Finish("raised", "DatabaseError")
                  /\ UNCHANGED <<pg, st>>

\* get_wrds_process_stream: the script is built, the export session opens
ExportOpen ==
    /\ pc \in {"pg_sql", "csv_sql"}
    /\ st.phase = "exited"
    /\ UNCHANGED <<args, env, sinks, loop, calls, persisted, contents,
                   modified, ops>>
    /\ IF MetadataOutcome # "none"
       THEN Finish("raised", MetadataOutcome) /\ UNCHANGED st
       ELSE /\ st' = NewStream("export", FALSE, TRUE)
            /\ pc' = IF pc = "pg_sql" THEN "pg_export" ELSE "csv_export"
            /\ UNCHANGED <<result, exc>>

\* wrds_process_to_pg: header, session parameters, COPY FROM STDIN
CopyBody ==
    /\ pc = "pg_export"
    /\ st.phase = "yielded"
    /\ \/ /\ pg' = [pg EXCEPT !.rows = "full"]
          /\ Log(<< <<"sql", "SET DateStyle">>, <<"sql", "SET TimeZone">>,
                 <<"sql", "COPY">> >>)
          /\ st' = [st EXCEPT !.phase = "leaving"]
       \/ /\ pg' = [pg EXCEPT !.rows = "partial"]
          /\ Log(<< <<"sql", "SET DateStyle">>, <<"sql", "SET TimeZone">>,
                 <<"sql", "COPY">> >>)
          /\ st' = [st EXCEPT !.bodyExc = "BodyError", !.phase = "leaving"]
       \/ /\ UNCHANGED <<pg, ops>>
          /\ st' = [st EXCEPT !.bodyExc = "ValueError", !.phase = "leaving"]
    /\ UNCHANGED <<args, env, pqFile, csvFile, tmpFile, dirMade, loop, calls,
                   persisted, pc, contents, modified, result, exc>>

\* wrds_to_pg: the grants on the table, after the with statement
TableGrants ==
    /\ pc = "pg_export"
    /\ st.phase = "exited"
    /\ UNCHANGED <<args, env, sinks, loop, calls, persisted, contents, modified>>
    /\ IF st.raised # "none"
       THEN Finish("raised", st.raised) /\ UNCHANGED <<ops, st>>
       ELSE \/ /\ IF create_roles
                  THEN Log(<< <<"sql", "ALTER TABLE OWNER">>, <<"sql", "GRANT SELECT">> >>)
                  ELSE UNCHANGED ops
               /\ pc' = "pg_comment"
               /\ st' = IdleStream
               /\ UNCHANGED <<result, exc>>
            \/ /\ create_roles
               /\ \/ Log(<< <<"sql", "ALTER TABLE OWNER">> >>)
                  \/ Log(<< <<"sql", "ALTER TABLE OWNER">>, <<"sql", "GRANT SELECT">> >>)
               /\ Finish("raised", "DatabaseError")
               /\ UNCHANGED st

\* wrds_update: set_table_comment, the roles and grants, return True; or
\* the comment fails, or a statement after it does when create_roles is set
UpdateComment ==
    /\ pc = "pg_comment"
    /\ \/ /\ pg' = [pg EXCEPT !.comment = modified,
                              !.roles = IF create_roles THEN {"owner", "access"} ELSE @]
          /\ Log(IF create_roles
                 THEN << <<"marker", "write">>, <<"sql", "ALTER TABLE OWNER">>,
                         <<"sql", "GRANT SELECT">> >>
                 ELSE << <<"marker", "write">> >>)
          /\ Finish("True", "none")
       \/ /\ UNCHANGED pg
          /\ Log(<< <<"marker", "write">> >>)
          /\ Finish("raised", "DatabaseError")
       \/ /\ create_roles
          /\ pg' = [pg EXCEPT !.comment = modified]
          /\ \/ Log(<< <<"marker", "write">>, <<"sql", "ALTER TABLE OWNER">> >>)
             \/ Log(<< <<"marker", "write">>, <<"sql", "ALTER TABLE OWNER">>,
                       <<"sql", "GRANT SELECT">> >>)
          /\ Finish("raised", "DatabaseError")
    /\ UNCHANGED <<args, env, pqFile, csvFile, tmpFile, dirMade, loop, calls,
                   persisted, st, contents, modified>>

(* ---------------------------- wrds_update_csv ------------------------- *)

\* resolve the configuration, make the schema directory, ask for the report
UpdateCsvStart ==
    /\ Begin("csv")
    /\ force' \in BOOLEAN
    /\ has_wrds_id' \in BOOLEAN
    /\ has_target' \in BOOLEAN
    /\ UNCHANGED <<has_fpath, pg, pqFile, csvFile, tmpFile, persisted>>
    /\ IF ConfigurationError(has_wrds_id', has_target') # "none"
       THEN /\ Finish("raised", ConfigurationError(has_wrds_id', has_target'))
            /\ ops' = <<>>
            /\ UNCHANGED <<dirMade, st>>
       ELSE /\ dirMade' = TRUE
            /\ ops' = << <<"file", "mkdir">> >>
            /\ st' = NewStream("proc_contents", FALSE, TRUE)
            /\ pc' = "contents"
            /\ result' = "none"
            /\ exc' = "none"

\* the remote marker, the file's marker and the decision; then wrds_to_csv
\* has get_wrds_process_stream build the export script
UpdateCsvCheck ==
    /\ pc = "contents"
    /\ kind = "csv"
    /\ st.phase = "exited"
    /\ UNCHANGED <<args, env, sinks, loop, calls, contents>>
    /\ IF st.raised # "none"
       THEN Finish("raised", st.raised) /\ UNCHANGED <<modified, persisted, ops, st>>
       ELSE /\ modified' = get_modified_str(contents)
            /\ IF modified'.isNone
               THEN Finish("False", "none") /\ UNCHANGED <<persisted, ops, st>>
               ELSE /\ persisted' = csv_modified(csvFile, host_offset)
                    /\ Log(<< <<"marker", "read">> >>)
                    /\ IF UpToDate(modified', persisted', force)
                       THEN Finish("False", "none") /\ UNCHANGED st
                       ELSE /\ st' = NewStream("get_table_sql", FALSE, TRUE)
                            /\ pc' = "csv_sql"
                            /\ UNCHANGED <<result, exc>>

\* wrds_to_csv: copy the stream into the gzip file
CsvBody ==
    /\ pc = "csv_export"
    /\ st.phase = "yielded"
    /\ \/ /\ csvFile' = [exists |-> TRUE, mtime |-> Now, data |-> "full"]
          /\ st' = [st EXCEPT !.phase = "leaving"]
       \/ /\ csvFile' = [exists |-> TRUE, mtime |-> Now, data |-> "partial"]
          /\ st' = [st EXCEPT !.bodyExc = "BodyError", !.phase = "leaving"]
    /\ Log(<< <<"file", "write">> >>)
    /\ UNCHANGED <<args, env, pg, pqFile, tmpFile, dirMade, loop, calls,
                   persisted, pc, contents, modified, result, exc>>

\* wrds_update_csv: set_modified_csv, return True
UpdateCsvSetModified ==
    /\ pc = "csv_export"
    /\ st.phase = "exited"
    /\ UNCHANGED <<args, env, pg, pqFile, tmpFile, dirMade, loop, calls,
                   persisted, st, contents, modified>>
    /\ IF st.raised # "none"
       THEN Finish("raised", st.raised) /\ UNCHANGED <<csvFile, ops>>
       ELSE IF ~modified_encode(modified).ok
       THEN Finish("raised", "ValueError") /\ UNCHANGED <<csvFile, ops>>
       ELSE /\ csvFile' = [csvFile EXCEPT !.mtime = modified_encode(modified).mtime]
            /\ Log(<< <<"marker", "write">> >>)
            /\ Finish("True", "none")

(* ---------------------------- wrds_update_pq -------------------------- *)

\* resolve the configuration, get_pq_file, ask for the report
UpdatePqStart ==
    /\ Begin("pq")
    /\ force' \in BOOLEAN
    /\ has_wrds_id' \in BOOLEAN
    /\ has_target' \in BOOLEAN
    /\ UNCHANGED <<has_fpath, pg, pqFile, csvFile, tmpFile, persisted>>
    /\ IF ConfigurationError(has_wrds_id', has_target') # "none"
       THEN /\ Finish("raised", ConfigurationError(has_wrds_id', has_target'))
            /\ ops' = <<>>
            /\ UNCHANGED <<dirMade, st>>
       ELSE /\ dirMade' = TRUE
            /\ ops' = << <<"file", "mkdir">> >>
            /\ st' = NewStream("proc_contents", FALSE, TRUE)
            /\ pc' = "contents"
            /\ result' = "none"
            /\ exc' = "none"

\* the remote marker, the file's marker and the decision; then the
\* temporary file, and wrds_to_csv has the export script built
UpdatePqCheck ==
    /\ pc = "contents"
    /\ kind = "pq"
    /\ st.phase = "exited"
    /\ UNCHANGED <<args, env, pg, pqFile, csvFile, dirMade, loop, calls, contents>>
    /\ IF st.raised # "none"
       THEN Finish("raised", st.raised) /\ UNCHANGED <<modified, persisted, ops, st, tmpFile>>
       ELSE /\ modified' = get_modified_str(contents)
            /\ IF modified'.isNone
               THEN Finish("False", "none") /\ UNCHANGED <<persisted, ops, st, tmpFile>>
               ELSE /\ persisted' = get_modified_pq(pqFile)
                    /\ IF UpToDate(modified', persisted', force)
                       THEN /\ Finish("False", "none")
                            /\ Log(<< <<"marker", "read">> >>)
                            /\ UNCHANGED <<st, tmpFile>>
                       ELSE /\ tmpFile' = TRUE
                            /\ Log(<< <<"marker", "read">>, <<"file", "mktemp">> >>)
                            /\ st' = NewStream("get_table_sql", FALSE, TRUE)
                            /\ pc' = "pq_sql"
                            /\ UNCHANGED <<result, exc>>

\* get_wrds_process_stream inside the try block of wrds_update_pq
PqExportOpen ==
    /\ pc = "pq_sql"
    /\ st.phase = "exited"
    /\ UNCHANGED <<args, env, sinks, written, writer, calls, persisted,
                   contents, modified, ops, result, exc>>
    /\ IF MetadataOutcome # "none"
       THEN /\ pending' = MetadataOutcome
            /\ pc' = "pq_cleanup"
            /\ UNCHANGED st
       ELSE /\ st' = NewStream("export", FALSE, TRUE)
            /\ pc' = "pq_export"
            /\ UNCHANGED pending

\* wrds_to_csv: copy the stream into the temporary gzip file
PqCsvBody ==
    /\ pc = "pq_export"
    /\ st.phase = "yielded"
    /\ \E e \in {"none", "BodyError"} :
          st' = [st EXCEPT !.bodyExc = e, !.phase = "leaving"]
    /\ Log(<< <<"file", "write">> >>)
    /\ UNCHANGED <<args, env, sinks, loop, calls, persisted, pc, contents,
                   modified, result, exc>>

\* wrds_update_pq: the export is on disk, get_table_metadata is called
PqMetadataOpen ==
    /\ pc = "pq_export"
    /\ st.phase = "exited"
    /\ UNCHANGED <<args, env, sinks, written, writer, calls, persisted,
                   contents, modified, ops, result, exc>>
    /\ IF st.raised # "none"
       THEN /\ pending' = st.raised
            /\ pc' = "pq_cleanup"
            /\ UNCHANGED st
       ELSE /\ st' = NewStream("get_table_metadata", FALSE, TRUE)
            /\ pc' = "pq_meta"
            /\ UNCHANGED pending

\* csv_to_pq_arrow_stream is called: the reader is open, no writer yet
TranscodeStart ==
    /\ pc = "pq_meta"
    /\ st.phase = "exited"
    /\ UNCHANGED <<args, env, sinks, calls, persisted, contents,
                   modified, ops, result, exc>>
    /\ IF MetadataOutcome # "none"
       THEN /\ pending' = MetadataOutcome
            /\ pc' = "pq_cleanup"
            /\ UNCHANGED <<written, writer, st>>
       ELSE /\ written' = 0
            /\ writer' = FALSE
            /\ pc' = "pq_batch"
            /\ st' = IdleStream
            /\ UNCHANGED pending

\* the file ParquetWriter(pq_file, schema=schema) starts, the marker in
\* its schema metadata
OpenWriter(m) == [exists |-> TRUE, closed |-> FALSE, marker |-> m, batches |-> 0]

\* one turn of `for batch in reader`: the reader raises on the batch, or
\* the batch is written (the first one opens the writer)
TranscodeBatch ==
    /\ pc = "pq_batch"
    /\ written < nbatches
    /\ \/ /\ pending' = "ArrowInvalid"
          /\ pc' = "pq_close"
          /\ UNCHANGED <<pqFile, written, writer, ops>>
       \/ /\ pqFile' = [(IF writer THEN pqFile ELSE OpenWriter(modified))
                           EXCEPT !.batches = @ + 1]
          /\ writer' = TRUE
          /\ written' = written + 1
          /\ Log(IF writer THEN << <<"parquet", "write_batch">> >>
                           ELSE << <<"parquet", "open">>, <<"parquet", "write_batch">> >>)
          /\ UNCHANGED <<pending, pc>>
    /\ UNCHANGED <<args, env, pg, csvFile, tmpFile, dirMade, calls, persisted,
                   st, contents, modified, result, exc>>

\* the reader is exhausted
TranscodeEnd ==
    /\ pc = "pq_batch"
    /\ written = nbatches
    /\ pc' = "pq_close"
    /\ UNCHANGED <<args, env, sinks, loop, calls, persisted, st, contents,
                   modified, ops, result, exc>>

\* `finally: if writer is not None: writer.close()`
TranscodeClose ==
    /\ pc = "pq_close"
    /\ IF writer
       THEN /\ pqFile' = [pqFile EXCEPT !.closed = TRUE]
            /\ Log(<< <<"parquet", "close">> >>)
       ELSE UNCHANGED <<pqFile, ops>>
    /\ writer' = FALSE
    /\ pc' = "pq_cleanup"
    /\ UNCHANGED <<args, env, pg, csvFile, tmpFile, dirMade, written, pending,
                   calls, persisted, st, contents, modified, result, exc>>

\* the temporary file is left where it is
RemoveTempSkipped(exists, removed) == exists

\* `try: os.remove(csv_file) except OSError: pass`: whether the file exists
\* afterwards
RemoveTemp(exists, removed) == IF removed THEN FALSE ELSE exists

\* the finally block of wrds_update_pq, then `return True`
PqCleanup ==
    /\ pc = "pq_cleanup"
    /\ \/ /\ tmpFile' = RemoveTemp(tmpFile, TRUE)
          /\ Log(<< <<"file", "remove">> >>)
       \/ /\ tmpFile' = RemoveTemp(tmpFile, FALSE)
          /\ Log(<< <<"file", "remove OSError">> >>)
    /\ IF pending # "none" THEN Finish("raised", pending)
                           ELSE Finish("True", "none")
    /\ UNCHANGED <<args, env, pg, pqFile, csvFile, dirMade, loop, calls,
                   persisted, st, contents, modified>>

(* --------------------------- between invocations ---------------------- *)

\* the next hour the wall clock of America/Chicago shows
NextWall(w) == IF w + 1 = GapWall THEN w + 2 ELSE w + 1

\* the data set is written again on the remote side, an hour later
Rewritten(r) ==
    [i \in 1..Len(r) |-> IF r[i].lastmod THEN LastModLine(NextWall(r[i].ts)) ELSE r[i]]

RemoteUpdate ==
    /\ pc = "idle"
    /\ callNo >= 1
    /\ ~prev.changed
    /\ Rewritten(report) # report
    /\ report' = Rewritten(report)
    /\ prev' = [prev EXCEPT !.changed = TRUE]
    /\ UNCHANGED <<kind, create_roles, host_offset, metaRows, nbatches, args,
                   sinks, loop, callNo, persisted, pc, st, contents, modified,
                   ops, result, exc, concurrent, applied>>

\* the caller moves on to its next invocation
NextCall ==
    /\ pc = "done"
    /\ callNo < MaxCalls
    /\ pc' = "idle"
    /\ prev' = [result |-> result, changed |-> FALSE]
    /\ st' = IdleStream
    /\ ops' = <<>>
    /\ result' = "none"
    /\ exc' = "none"
    /\ persisted' = EmptyString
    /\ written' = 0
    /\ writer' = FALSE
    /\ pending' = "none"
    /\ UNCHANGED <<args, env, sinks, callNo, contents, modified>>

Next ==
    \/ StreamEnter
    \/ StreamWrite
    \/ StreamLeave
    \/ StreamCall
    \/ StreamBody
    \/ StreamReturn
    \/ ContentsBody
    \/ MetadataBody
    \/ UpdateStart
    \/ UpdateCheck
    \/ EnsureSchema
    \/ DropTable
    \/ CreateTable
    \/ ExportOpen
    \/ CopyBody
    \/ TableGrants
    \/ UpdateComment
    \/ UpdateCsvStart
    \/ UpdateCsvCheck
    \/ CsvBody
    \/ UpdateCsvSetModified
    \/ UpdatePqStart
    \/ UpdatePqCheck
    \/ PqExportOpen
    \/ PqCsvBody
    \/ PqMetadataOpen
    \/ TranscodeStart
    \/ TranscodeBatch
    \/ TranscodeEnd
    \/ TranscodeClose
    \/ PqCleanup
    \/ RemoteUpdate
    \/ NextCall

Spec == Init /\ [][Next]_vars

(* ------------------------- reading the log ---------------------------- *)

Sinks == {"pg", "pq", "csv"}

MetadataSessions == {"get_table_metadata", "get_table_sql"}

\* positions of the invocation after the decision to fetch
FetchingPcs ==
    {"pg_schema", "pg_drop", "pg_meta", "pg_sql", "pg_export", "pg_comment",
     "pq_sql", "pq_export", "pq_meta", "pq_batch", "pq_close", "pq_cleanup",
     "csv_sql", "csv_export"}

MarkerRead == <<"marker", "read">>

\* the operations that persist the marker: the table comment, the mtime,
\* the footer of the Parquet file
MarkerWrites == {<<"marker", "write">>, <<"parquet", "close">>}

\* the operations that load or transcode the data
LoadOps == {<<"sql", "COPY">>, <<"file", "write">>, <<"parquet", "write_batch">>}

\* a write to the database or to a file (the schema directory apart)
IsWrite(op) ==
    \/ op[1] \in {"sql", "parquet"}
    \/ op[1] = "file" /\ op[2] # "mkdir"
    \/ op = <<"marker", "write">>

\* an operation of the fetching phase
IsFetch(op) ==
    \/ IsWrite(op)
    \/ op[1] \in {"open", "close"} /\ op[2] # "proc_contents"

Positions(S) == {i \in DOMAIN ops : ops[i] \in S}

Count(S) == Cardinality(Positions(S))

\* a write has been issued in this invocation
IssuedWrite == \E i \in DOMAIN ops : IsWrite(ops[i])

\* an operation of the fetching phase has been issued in this invocation
IssuedFetch == \E i \in DOMAIN ops : IsFetch(ops[i])

OpenOf(purposes) == {<<"open", p>> : p \in purposes}

CloseOf(purposes) == {<<"close", p>> : p \in purposes}

\* the marker a sync of the sink would read now
SinkMarker ==
    CASE kind = "pg" -> get_table_comment(pg)
      [] kind = "pq" -> IF pqFile.exists /\ ~pqFile.closed
                            THEN EmptyString   \* no footer to read yet
                            ELSE get_modified_pq(pqFile)
      [] kind = "csv" -> csv_modified(csvFile, host_offset)
      [] OTHER -> EmptyString

\* the whole data set has been exported and loaded or transcoded, no error
WholeDatasetDone ==
    CASE kind = "pg" -> pg.rows = "full" /\ st.raised = "none"
      [] kind = "pq" -> written = nbatches /\ pending = "none"
      [] kind = "csv" -> csvFile.data = "full" /\ st.raised = "none"
      [] OTHER -> FALSE

(* --------------- two invocations of wrds_update at once --------------- *)

\* Each invocation syncs a table of its own into the same schema of the same
\* database; its remote data set has changed, and its remote sessions and
\* its load succeed.  Every statement is a transaction of its own
\* (process_sql, role_exists), so a step is one statement.

Raise(w, e) == [w EXCEPT !.pc = "done", !.result = "raised", !.exc = e]

Goto(w, p) == [w EXCEPT !.pc = p]

\* `if not role_exists(engine, role)`
RoleExists(cat, w, role, yes, no) ==
    [cat |-> cat,
     w |-> [w EXCEPT !.saw = role \in cat.roles,
                     !.ensured = IF role \in cat.roles THEN @ \cup {role} ELSE @,
                     !.pc = IF role \in cat.roles THEN yes ELSE no]]

\* `create_role(engine, role)`: CREATE ROLE fails on a role that exists
CreateRole(cat, w, role, then) ==
    IF role \in cat.roles
    THEN [cat |-> cat, w |-> Raise(w, "DuplicateObject")]
    ELSE [cat |-> [cat EXCEPT !.roles = @ \cup {role}],
          w |-> [Goto(w, then) EXCEPT !.ensured = @ \cup {role}]]

\* ALTER ... OWNER TO role, GRANT ... TO role: fail on a role that is missing
NeedsRole(cat, w, role, then) ==
    IF role \in cat.roles
    THEN [cat |-> cat, w |-> Goto(w, then)]
    ELSE [cat |-> cat, w |-> Raise(w, "UndefinedObject")]

\* the next statement of invocation w, which syncs table t, on database cat
PgStep(cat, w, t) ==
    CASE w.pc = "schema_names" ->
            [cat |-> cat,
             w |-> Goto(w, IF cat.schema THEN "load" ELSE "create_schema")]
      [] w.pc = "create_schema" ->
            IF cat.schema
            THEN [cat |-> cat, w |-> Raise(w, "DuplicateSchema")]
            ELSE [cat |-> [cat EXCEPT !.schema = TRUE],
                  w |-> Goto(w, IF w.create_roles THEN "owner_exists" ELSE "load")]
      [] w.pc = "owner_exists" -> RoleExists(cat, w, "owner", "schema_owner", "create_owner")
      [] w.pc = "create_owner" -> CreateRole(cat, w, "owner", "schema_owner")
      [] w.pc = "schema_owner" -> NeedsRole(cat, w, "owner", "access_exists")
      [] w.pc = "access_exists" -> RoleExists(cat, w, "access", "grant_usage", "create_access")
      [] w.pc = "create_access" -> CreateRole(cat, w, "access", "grant_usage")
      [] w.pc = "grant_usage" -> NeedsRole(cat, w, "access", "load")
      [] w.pc = "load" ->
            [cat |-> [cat EXCEPT !.tables = @ \cup {t}],
             w |-> Goto(w, IF w.create_roles THEN "table_owner" ELSE "comment")]
      [] w.pc = "table_owner" -> NeedsRole(cat, w, "owner", "table_grant")
      [] w.pc = "table_grant" -> NeedsRole(cat, w, "access", "comment")
      [] w.pc = "comment" ->
            [cat |-> cat,
             w |-> IF w.create_roles
                   THEN Goto(w, "upd_owner_exists")
                   ELSE [w EXCEPT !.pc = "done", !.result = "True"]]
      [] w.pc = "upd_owner_exists" ->
            RoleExists(cat, w, "owner", "upd_table_owner", "upd_create_owner")
      [] w.pc = "upd_create_owner" -> CreateRole(cat, w, "owner", "upd_table_owner")
      [] w.pc = "upd_table_owner" -> NeedsRole(cat, w, "owner", "upd_access_exists")
      [] w.pc = "upd_access_exists" ->
            RoleExists(cat, w, "access", "upd_table_grant", "upd_create_access")
      [] w.pc = "upd_create_access" -> CreateRole(cat, w, "access", "upd_table_grant")
      [] w.pc = "upd_table_grant" ->
            LET r == NeedsRole(cat, w, "access", "done")
            IN  IF r.w.result = "raised" THEN r
                ELSE [cat |-> cat, w |-> [w EXCEPT !.pc = "done", !.result = "True"]]
      [] OTHER -> [cat |-> cat, w |-> w]

\* the invocation run to its end with the database to itself
RECURSIVE RunAlone(_, _, _)
RunAlone(cat, w, t) ==
    IF w.pc = "done" THEN w
    ELSE LET r == PgStep(cat, w, t) IN RunAlone(r.cat, r.w, t)

\* an invocation that has decided to fetch and enters wrds_to_pg
Called(roles) == [NotCalled EXCEPT !.pc = "schema_names", !.create_roles = roles]

\* the database before: no schema yet, or the schema of an earlier sync
\* with or without its roles
InitialCatalogs ==
    { [schema |-> FALSE, roles |-> {}, tables |-> {}],
      [schema |-> TRUE, roles |-> {}, tables |-> {}],
      [schema |-> TRUE, roles |-> {"owner", "access"}, tables |-> {}] }

\* no sequence of invocations is under way
SyncAtRest ==
    /\ kind = "pg"
    /\ callNo = 0
    /\ force = FALSE
    /\ has_wrds_id = TRUE
    /\ has_fpath = FALSE
    /\ has_target = TRUE
    /\ create_roles = TRUE
    /\ host_offset = 0
    /\ report = <<>>
    /\ metaRows = <<>>
    /\ nbatches = 0
    /\ pg = NoTable
    /\ pqFile = NoFile
    /\ csvFile = NoCsv
    /\ tmpFile = FALSE
    /\ dirMade = FALSE
    /\ persisted = EmptyString
    /\ written = 0
    /\ writer = FALSE
    /\ pending = "none"
    /\ prev = [result |-> "none", changed |-> FALSE]
    /\ pc = "idle"
    /\ st = IdleStream
    /\ contents = <<>>
    /\ modified = None
    /\ ops = <<>>
    /\ result = "none"
    /\ exc = "none"

ConcurrentInit ==
    /\ SyncAtRest
    /\ NoneApplied
    /\ catalog0 \in InitialCatalogs
    /\ catalog = catalog0
    /\ inv \in {<<Called(a), Called(b)>> : a \in BOOLEAN, b \in BOOLEAN}

\* invocation i issues its next statement
Statement(i) ==
    LET r == PgStep(catalog, inv[i], i)
    IN  /\ catalog' = r.cat
        /\ inv' = [inv EXCEPT ![i] = r.w]

\* wrds_to_pg: the schema and its roles
ConcEnsureSchema ==
    \E i \in {1, 2} :
        /\ inv[i].pc \in {"schema_names", "create_schema", "owner_exists", "create_owner",
                          "schema_owner", "access_exists", "create_access", "grant_usage"}
        /\ Statement(i)
        /\ UNCHANGED <<catalog0, sync_vars, applied>>

\* wrds_to_pg: DROP TABLE, CREATE TABLE and the load of the invocation's table
ConcLoad ==
    \E i \in {1, 2} :
        /\ inv[i].pc = "load"
        /\ Statement(i)
        /\ UNCHANGED <<catalog0, sync_vars, applied>>

\* wrds_to_pg: the grants on the table
ConcTableGrants ==
    \E i \in {1, 2} :
        /\ inv[i].pc \in {"table_owner", "table_grant"}
        /\ Statement(i)
        /\ UNCHANGED <<catalog0, sync_vars, applied>>

\* wrds_update: the comment, then the roles and grants
ConcUpdateComment ==
    \E i \in {1, 2} :
        /\ inv[i].pc \in {"comment", "upd_owner_exists", "upd_create_owner",
                          "upd_table_owner", "upd_access_exists", "upd_create_access",
                          "upd_table_grant"}
        /\ Statement(i)
        /\ UNCHANGED <<catalog0, sync_vars, applied>>

ConcurrentNext ==
    \/ ConcEnsureSchema
    \/ ConcLoad
    \/ ConcTableGrants
    \/ ConcUpdateComment

ConcurrentSpec == ConcurrentInit /\ [][ConcurrentNext]_vars

(* ------------------------- functions of text ------------------------- *)

\* A string the code searches or cuts is a sequence of one-character strings.

Capitals == <<"A", "B", "C", "D", "E", "F", "G", "H", "I", "J", "K", "L", "M",
              "N", "O", "P", "Q", "R", "S", "T", "U", "V", "W", "X", "Y", "Z">>

Smalls == <<"a", "b", "c", "d", "e", "f", "g", "h", "i", "j", "k", "l", "m",
            "n", "o", "p", "q", "r", "s", "t", "u", "v", "w", "x", "y", "z">>

\* str.lower()
Lower(s) ==
    [i \in 1..Len(s) |->
        IF \E k \in DOMAIN Capitals : Capitals[k] = s[i]
        THEN Smalls[CHOOSE k \in DOMAIN Capitals : Capitals[k] = s[i]]
        ELSE s[i]]

\* str.upper()
Upper(s) ==
    [i \in 1..Len(s) |->
        IF \E k \in DOMAIN Smalls : Smalls[k] = s[i]
        THEN Capitals[CHOOSE k \in DOMAIN Smalls : Smalls[k] = s[i]]
        ELSE s[i]]

\* str.strip()
Strip(s) ==
    LET inked == {i \in 1..Len(s) : s[i] # " "}
    IN  IF inked = {} THEN <<>>
        ELSE SubSeq(s, CHOOSE i \in inked : \A j \in inked : i <= j,
                       CHOOSE i \in inked : \A j \in inked : j <= i)

\* re.search(word, s, re.I) for a pattern that is a plain word
SearchI(word, s) ==
    \E i \in 0..(Len(s) - Len(word)) :
        SubSeq(Lower(s), i + 1, i + Len(word)) = Lower(word)

(* --------------------------- code_row_dict ---------------------------- *)

\* `int(float(x or 0))`, `int(x or 0)` on the numerals of a metadata report
IntOrZero(x) ==
    CASE x = "" -> 0
      [] x = "0" -> 0
      [] x = "1" -> 1
      [] x = "2" -> 2
      [] x = "8" -> 8
      [] x = "12" -> 12

\* the format time first
code_row_dict_time_first(row) ==
    LET fmt == Strip(row.format)
    IN  IF IntOrZero(row.type) = 2 THEN "text"
        ELSE IF fmt # <<>> /\ SearchI(<<"t", "i", "m", "e">>, fmt) THEN "time"
        ELSE IF fmt # <<>> /\ SearchI(<<"d", "a", "t", "e">>, fmt) THEN "date"
        ELSE IF IntOrZero(row.formatd) # 0 THEN "float8"
        ELSE IF IntOrZero(row.formatl) # 0 THEN "integer"
        ELSE "float8"

code_row_dict(row) ==
    LET fmt == Strip(row.format)
        col_type == IntOrZero(row.type)
        formatd == IntOrZero(row.formatd)
        formatl == IntOrZero(row.formatl)
    IN  IF col_type = 2 THEN "text"
        ELSE IF fmt # <<>> /\ SearchI(<<"d", "a", "t", "e", "t", "i", "m", "e">>, fmt)
             THEN "timestamp"
        ELSE IF fmt # <<>> /\ (\/ Upper(fmt) = <<"T", "I", "M", "E", "8", ".">>
                               \/ Upper(fmt) = <<"T", "O", "D">>
                               \/ SearchI(<<"t", "i", "m", "e">>, fmt))
             THEN "time"
        ELSE IF fmt # <<>> /\ (\/ SearchI(<<"d", "a", "t", "e">>, fmt)
                               \/ SearchI(<<"y", "y", "m", "m", "d", "d">>, fmt)
                               \/ SearchI(<<"m", "m", "d", "d", "y", "y">>, fmt))
             THEN "date"
        ELSE IF Upper(fmt) = <<"B", "E", "S", "T">> THEN "float8"
        ELSE IF formatd # 0 THEN "float8"
        ELSE IF formatd = 0 /\ formatl # 0 THEN "integer"
        ELSE IF formatd = 0 /\ formatl = 0 THEN "float8"
        ELSE "text"

\* format names a metadata report carries
Formats ==
    { <<>>,
      <<" ">>,
      <<"B", "E", "S", "T">>,
      <<"b", "e", "s", "t", " ">>,
      <<"D", "A", "T", "E", "T", "I", "M", "E">>,
      <<"E", "8", "6", "0", "1", "D", "T">>,
      <<"T", "I", "M", "E">>,
      <<"T", "O", "D">>,
      <<"D", "A", "T", "E">>,
      <<"Y", "Y", "M", "M", "D", "D", "N">>,
      <<"m", "m", "d", "d", "y", "y">>,
      <<"C", "O", "M", "M", "A">>,
      <<"$">> }

\* the rows of a metadata report, as csv.DictReader hands them over
ReportRows ==
    [type : {"", "1", "2"}, format : Formats,
     formatl : {"", "0", "8", "12"}, formatd : {"", "0", "2"}]

(* ------------------ the names and the type map ----------------------- *)

\* `names = [r["name"].strip().lower() for r in rows]`
ColumnNames(rows) == [i \in 1..Len(rows) |-> Lower(Strip(rows[i].name))]

\* `inferred = {n: code_row_dict(r) for n, r in zip(names, rows)}`
InferredTypes(rows) ==
    LET names == ColumnNames(rows)
    IN  [n \in {names[i] : i \in 1..Len(rows)} |->
            LET i == CHOOSE i \in 1..Len(rows) :
                        names[i] = n /\ \A j \in 1..Len(rows) : names[j] = n => j <= i
            IN  code_row_dict(rows[i])]

\* the inferred types left as they are
OverriddenNever(inferred, col_types) == inferred

\* `for k, v in col_types.items(): inferred[k.lower()] = v`; col_types is a
\* sequence of <<key, type>> in the order of the dict, <<>> for None
Overridden(inferred, col_types) ==
    LET keys == {Lower(col_types[j][1]) : j \in 1..Len(col_types)}
    IN  [k \in DOMAIN inferred \cup keys |->
            IF k \in keys
            THEN LET j == CHOOSE j \in 1..Len(col_types) :
                             /\ Lower(col_types[j][1]) = k
                             /\ \A m \in 1..Len(col_types) :
                                    Lower(col_types[m][1]) = k => m <= j
                 IN  col_types[j][2]
            ELSE inferred[k]]

\* the names taken from the type map: the keys in the order they were set
get_table_metadata_keys(rows, col_types) ==
    LET names == ColumnNames(rows)
        extra == SelectSeq([j \in 1..Len(col_types) |-> Lower(col_types[j][1])],
                           LAMBDA k : \A i \in 1..Len(names) : names[i] # k)
    IN  [names |-> names \o extra,
         col_types |-> Overridden(InferredTypes(rows), col_types)]

\* get_table_metadata once the report is parsed into rows with a name
get_table_metadata(rows, col_types) ==
    [names |-> ColumnNames(rows),
     col_types |-> Overridden(InferredTypes(rows), col_types)]

\* get_table_sql(return_sql=True) once the report is parsed: the names, the
\* type map and the column list of its CREATE TABLE
get_table_sql(rows, col_types) ==
    LET names == ColumnNames(rows)
        inferred == Overridden(InferredTypes(rows), col_types)
    IN  [names |-> names,
         col_types |-> inferred,
         sql |-> [i \in 1..Len(names) |-> <<names[i], inferred[names[i]]>>]]

\* the columns of the remote data set
Columns ==
    { [name |-> <<"I", "D">>, type |-> "1", format |-> <<>>, formatl |-> "8", formatd |-> "0"],
      [name |-> <<"N", "a", "m", "e">>, type |-> "2", format |-> <<"$">>,
       formatl |-> "12", formatd |-> "0"],
      [name |-> <<"d">>, type |-> "1", format |-> <<"Y", "Y", "M", "M", "D", "D", "N">>,
       formatl |-> "8", formatd |-> "0"],
      [name |-> <<"R", "e", "t">>, type |-> "1", format |-> <<>>, formatl |-> "", formatd |-> ""] }

\* metadata reports: up to MaxCols of the columns, in any order
MetadataRows ==
    UNION { {r \in [1..n -> Columns] : \A i, j \in 1..n : r[i] = r[j] => i = j} :
            n \in 1..MaxCols }

\* the col_types argument: none, a column of the report in either case, a
\* column that is in no report
Overrides ==
    { <<>>,
      << <<<<"i", "d">>, "bigint">> >>,
      << <<<<"N", "A", "M", "E">>, "varchar">> >>,
      << <<<<"z", "z">>, "text">> >>,
      << <<<<"z", "z">>, "text">>, <<<<"R", "e", "t">>, "numeric">> >> }

(* ------------------------- the export script ------------------------- *)

\* the keys of the type map in the order of the dict: the columns, then the
\* overrides that name no column
TypeMapKeys(rows, col_types) ==
    LET names == ColumnNames(rows)
    IN  names \o SelectSeq([j \in 1..Len(col_types) |-> Lower(col_types[j][1])],
                           LAMBDA k : \A i \in 1..Len(names) : names[i] # k)

\* every key, whatever its type
KeysOfAnyType(keys, col_types, types) == keys

\* `[k for k, v in col_types.items() if v in types]`
KeysOfType(keys, col_types, types) == SelectSeq(keys, LAMBDA k : col_types[k] \in types)

\* the name left as long as it is
new_table_uncut(schema, table_name) == schema \o table_name

\* `new_table = "%s%s" % (schema, table_name)` cut to 32 characters
new_table(schema, table_name) ==
    LET whole == schema \o table_name
    IN  SubSeq(whole, 1, IF Len(whole) <= NameLimit THEN Len(whole) ELSE NameLimit)

\* get_wrds_sas: the script as its steps.  `a` holds the arguments (a text
\* directive is "" when unset, obs is 0), `rows` the metadata report that
\* its call of get_table_sql parses.
get_wrds_sas(a, rows) ==
    LET col_types == get_table_sql(rows, a.col_types).col_types
        keys == TypeMapKeys(rows, a.col_types)
        fix_missing == a.fix_missing \/ a.fix_cr
        source == [lib |-> a.schema, name |-> a.table_name]
        work == [lib |-> <<>>, name |-> new_table(a.schema, a.table_name)]
        plain == {"date", "time", "timestamp", "bigint"}
        every == {col_types[k] : k \in DOMAIN col_types}
    IN  IF \/ fix_missing
           \/ a.drop # ""
           \/ a.obs # 0
           \/ a.keep # ""
           \/ DOMAIN col_types # {}
           \/ a.where # ""
        THEN << [proc |-> "data",
                 data |-> work,
                 set |-> source,
                 options |-> IF a.obs # 0 \/ a.drop # "" \/ a.rename # "" \/ a.keep # ""
                             THEN [drop |-> a.drop, keep |-> a.keep,
                                   obs |-> a.obs, rename |-> a.rename]
                             ELSE [drop |-> "", keep |-> "", obs |-> 0, rename |-> ""],
                 bigints |-> KeysOfType(keys, col_types, {"bigint"}),
                 fix_cr |-> a.fix_cr,
                 fix_missing |-> fix_missing,
                 where |-> a.where],
                [proc |-> "datasets",
                 data |-> work,
                 unformat |-> KeysOfType(keys, col_types, every \ plain),
                 dates |-> KeysOfType(keys, col_types, {"date"}),
                 times |-> KeysOfType(keys, col_types, {"time"}),
                 timestamps |-> KeysOfType(keys, col_types, {"timestamp"})],
                [proc |-> "export", data |-> work, rename |-> ""] >>
        ELSE << [proc |-> "export", data |-> source, rename |-> a.rename] >>

\* a schema name and a table name of n characters
SchemaName(n) == [i \in 1..n |-> Smalls[((i - 1) % 26) + 1]]

TableName(n) == [i \in 1..n |-> Capitals[((i - 1) % 26) + 1]]

\* the col_types a caller of get_wrds_sas passes: none, or types forced on
\* the columns of the table
ExportOverrides ==
    { <<>>,
      << <<<<"i", "d">>, "bigint">> >>,
      << <<<<"I", "D">>, "time">>, <<<<"d">>, "timestamp">> >>,
      << <<<<"d">>, "text">>, <<<<"n">>, "bigint">> >> }

\* the arguments of get_wrds_sas: every combination of directives for one
\* table, and names of every length for one combination
ExportArguments ==
    [schema : {SchemaName(4)}, table_name : {TableName(3)},
     fix_cr : BOOLEAN, fix_missing : BOOLEAN,
     drop : {"", "gvkey"}, keep : {"", "permno ret"}, obs : {0, 10},
     where : {"", "ret > 0"}, rename : {"", "ret=r"},
     col_types : ExportOverrides]
    \cup
    [schema : {SchemaName(n) : n \in 1..MaxSchemaLen},
     table_name : {TableName(n) : n \in 1..MaxTableLen},
     fix_cr : {FALSE}, fix_missing : {TRUE},
     drop : {""}, keep : {""}, obs : {0}, where : {""}, rename : {""},
     col_types : {<<>>}]

\* the metadata report of the table the script is built for
ExportRows ==
    CHOOSE r \in MetadataRows :
        Len(r) = 2 /\ r[1].name = <<"I", "D">> /\ r[2].name = <<"d">>

\* get_wrds_process_stream: it takes no col_types and calls get_wrds_sas
\* without one
get_wrds_process_stream(a, rows) == get_wrds_sas([a EXCEPT !.col_types = <<>>], rows)

\* wrds_to_pg: the columns of its CREATE TABLE, from get_table_metadata with
\* the col_types of the call, and the export script it runs
wrds_to_pg(a, rows) ==
    LET meta == get_table_metadata(rows, a.col_types)
    IN  [names |-> meta.names,
         col_types |-> meta.col_types,
         script |-> get_wrds_process_stream(a, rows)]

\* wrds_update_pq: the export script wrds_to_csv runs, then the names and
\* the type map it hands to csv_to_pq_arrow_stream
wrds_update_pq(a, rows) ==
    LET script == get_wrds_process_stream(a, rows)
        meta == get_table_metadata(rows, a.col_types)
    IN  [names |-> meta.names,
         col_types |-> meta.col_types,
         script |-> script]

\* the arguments of a sync: the table, fix_missing and col_types
SyncArguments ==
    [schema : {SchemaName(4)}, table_name : {TableName(3)},
     fix_cr : {FALSE}, fix_missing : BOOLEAN,
     drop : {""}, keep : {""}, obs : {0}, where : {""}, rename : {""},
     col_types : Overrides]

\* the lines of a PROC CONTENTS report
ReportLines ==
    { TitleLine, EngineLine, ProtectionLine, LastModLine(1), LastModLine(3),
      LastModLineAlone(1, "wide"), LastModLineAlone(1, "narrow"),
      IndentedLastModLine(3) }

\* the reports get_modified_str is called on: up to MaxLines lines
ModifiedReports == UNION { [1..n -> ReportLines] : n \in 0..MaxLines }

(* ------------------- the mtime of the csv file ------------------------ *)

\* set_modified_csv: os.utime(file_name, times=(now, modified_encode(m)))
set_modified_csv(file, last_modified) ==
    [file EXCEPT !.mtime = modified_encode(last_modified).mtime]

\* strings of the form 'Last modified: MM/DD/YYYY HH:MM:SS'
WellFormedMarkers == {LastModified(w) : w \in 0..MaxWall}

(* ------------------- functions called on their own -------------------- *)

Calls ==
    {[fn |-> "code_row_dict", row |-> r] : r \in ReportRows}
    \cup {[fn |-> f, rows |-> r, col_types |-> c] :
            f \in {"get_table_metadata", "get_table_sql"},
            r \in MetadataRows, c \in Overrides}
    \cup {[fn |-> "set_modified_csv", last_modified |-> m, host_offset |-> h] :
            m \in WellFormedMarkers, h \in HostOffsets}
    \cup {[fn |-> "get_wrds_sas", args |-> a, rows |-> ExportRows] : a \in ExportArguments}
    \cup {[fn |-> "get_modified_str", contents |-> c] : c \in ModifiedReports}
    \cup {[fn |-> f, args |-> a, rows |-> r] :
            f \in {"wrds_to_pg", "wrds_update_pq"}, a \in SyncArguments, r \in MetadataRows}

AppliedInit ==
    /\ SyncAtRest
    /\ NoneConcurrent
    /\ call \in Calls
    /\ ret = [done |-> FALSE]

ApplyCodeRowDict ==
    /\ call.fn = "code_row_dict"
    /\ ~ret.done
    /\ ret' = [done |-> TRUE, value |-> code_row_dict(call.row)]
    /\ UNCHANGED <<call, sync_vars, concurrent>>

ApplyGetTableMetadata ==
    /\ call.fn = "get_table_metadata"
    /\ ~ret.done
    /\ ret' = [done |-> TRUE, value |-> get_table_metadata(call.rows, call.col_types)]
    /\ UNCHANGED <<call, sync_vars, concurrent>>

ApplyGetTableSql ==
    /\ call.fn = "get_table_sql"
    /\ ~ret.done
    /\ ret' = [done |-> TRUE, value |-> get_table_sql(call.rows, call.col_types)]
    /\ UNCHANGED <<call, sync_vars, concurrent>>

\* set_modified_csv on an existing file, then get_modified_csv of the file
ApplySetModifiedCsv ==
    /\ call.fn = "set_modified_csv"
    /\ ~ret.done
    /\ LET file == set_modified_csv([exists |-> TRUE, mtime |-> Now, data |-> "full"],
                                    call.last_modified)
       IN  ret' = [done |-> TRUE, value |-> get_modified_csv(file.mtime, call.host_offset)]
    /\ UNCHANGED <<call, sync_vars, concurrent>>

ApplyGetWrdsSas ==
    /\ call.fn = "get_wrds_sas"
    /\ ~ret.done
    /\ ret' = [done |-> TRUE, value |-> get_wrds_sas(call.args, call.rows)]
    /\ UNCHANGED <<call, sync_vars, concurrent>>

ApplyGetModifiedStr ==
    /\ call.fn = "get_modified_str"
    /\ ~ret.done
    /\ ret' = [done |-> TRUE, value |-> get_modified_str(call.contents)]
    /\ UNCHANGED <<call, sync_vars, concurrent>>

\* the layout and the script of one wrds_to_pg
ApplyWrdsToPg ==
    /\ call.fn = "wrds_to_pg"
    /\ ~ret.done
    /\ ret' = [done |-> TRUE, value |-> wrds_to_pg(call.args, call.rows)]
    /\ UNCHANGED <<call, sync_vars, concurrent>>

\* the script and the type map of one wrds_update_pq
ApplyWrdsUpdatePq ==
    /\ call.fn = "wrds_update_pq"
    /\ ~ret.done
    /\ ret' = [done |-> TRUE, value |-> wrds_update_pq(call.args, call.rows)]
    /\ UNCHANGED <<call, sync_vars, concurrent>>

AppliedNext ==
    \/ ApplyCodeRowDict
    \/ ApplySetModifiedCsv
    \/ ApplyGetWrdsSas
    \/ ApplyGetTableMetadata
    \/ ApplyGetTableSql
    \/ ApplyWrdsToPg
    \/ ApplyWrdsUpdatePq
    \/ ApplyGetModifiedStr

AppliedSpec == AppliedInit /\ [][AppliedNext]_vars

(* ------------------------------ claims -------------------------------- *)

\* C1: a sync enters the fetching phase (metadata and export sessions,
\* DROP/CREATE/COPY, file written or transcoded, marker written) only if the
\* remote marker differs from the marker it read from the sink or force is
\* set; with equal markers and force unset it returns False and has issued
\* none of those operations.
C1_FetchOnlyIfChangedOrForced ==
    kind \in Sinks =>
        /\ (pc \in FetchingPcs \/ IssuedFetch) => (modified # persisted \/ force)
        /\ (pc = "done" /\ ~modified.isNone /\ modified = persisted /\ ~force)
              => (result = "False" /\ ~IssuedFetch)

C1_Witness ==
    /\ kind \in Sinks
    /\ pc = "done"
    /\ ~modified.isNone
    /\ modified = persisted
    /\ ~force
    /\ result = "False"
    /\ Count({MarkerRead}) = 1

\* C2: after an invocation that returned True, the next invocation with the
\* same arguments, force unset and the remote marker unchanged returns False
\* and writes nothing to the sink.
C2_Idempotent ==
    (/\ kind \in Sinks
     /\ pc \notin {"idle", "contents"}
     /\ prev.result = "True"
     /\ ~prev.changed
     /\ has_wrds_id
     /\ has_target
     /\ ~force
     /\ ~modified.isNone)
        => /\ pc = "done"
           /\ result = "False"
           /\ ~IssuedWrite

\* C3: when wrds_update_pq ends, returning or raising, the Parquet file
\* carries last_modified equal to the remote marker only if every batch of
\* the exported data set was written to it.
C3_AtomicVisibility ==
    (/\ kind = "pq"
     /\ pc = "done"
     /\ ~modified.isNone
     /\ get_modified_pq(pqFile) = modified)
        => pqFile.batches = nbatches

\* C4: in an invocation that reaches the comparison the sink's marker is
\* read exactly once, before any export session opens; it is written at most
\* once, and only when the whole data set has been exported and loaded or
\* transcoded without error; until then the sink does not come to carry the
\* remote marker by a step of the invocation.
C4_MarkerReadFirstWrittenLast ==
    kind \in Sinks =>
        /\ Count({MarkerRead}) <= 1
        /\ (pc \in FetchingPcs \/ IssuedFetch) => Count({MarkerRead}) = 1
        /\ \A i \in Positions(OpenOf({"export"})) :
              \E j \in Positions({MarkerRead}) : j < i
        /\ Count(MarkerWrites) <= 1
        /\ Count(MarkerWrites) = 1 => WholeDatasetDone
        /\ (/\ Count({MarkerRead}) = 1
            /\ ~modified.isNone
            /\ SinkMarker # persisted
            /\ SinkMarker = modified) => WholeDatasetDone

C6_MissingTable ==
    (/\ kind \in Sinks
     /\ pc = "done"
     /\ has_wrds_id
     /\ has_target
     /\ report = <<>>
     /\ st.purpose = "proc_contents"
     /\ st.phase = "exited"
     /\ st.raised = "none")
        => /\ contents = <<>>
           /\ modified.isNone
           /\ result = "False"
           /\ exc = "none"
           /\ ~IssuedWrite

C6_Witness ==
    /\ kind = "pq"
    /\ pc = "done"
    /\ force
    /\ report = <<>>
    /\ st.purpose = "proc_contents"
    /\ st.raised = "none"
    /\ result = "False"

\* C7: an invocation opens at most one session for the column metadata and
\* at most one for the export, the metadata session closed before the export
\* session opens, and exactly one of each when it returns True.
C7_OneMetadataThenOneExport ==
    kind \in Sinks =>
        /\ Count(OpenOf(MetadataSessions)) <= 1
        /\ Count(OpenOf({"export"})) <= 1
        /\ \A i \in Positions(OpenOf({"export"})) :
              /\ \E j \in Positions(CloseOf(MetadataSessions)) : j < i
              /\ \A j \in Positions(OpenOf(MetadataSessions)) : j < i
        /\ (pc = "done" /\ result = "True") =>
              /\ Count(OpenOf(MetadataSessions)) = 1
              /\ Count(OpenOf({"export"})) = 1

\* C8: when the column-metadata report has no rows or no name column,
\* wrds_update and wrds_update_pq end with a False/None result, not with an
\* exception.
C8_MetadataErrorNotRaised ==
    (/\ kind \in {"pg", "pq"}
     /\ pc = "done"
     /\ st.purpose \in MetadataSessions
     /\ st.phase = "exited"
     /\ st.raised = "none"
     /\ MetadataError(metaRows) # "none")
        => result # "raised"

\* C9: in remote mode get_process_stream leaves with the RuntimeError of
\* the exit status when the status is above 4, and with no error of its own
\* when the status is 0 to 4.
C9_RemoteExitStatus ==
    (st.phase = "exited" /\ st.mode = "remote" /\ st.exit >= 0)
        => /\ st.exit > ExitTolerance => st.raised = "RuntimeError"
           /\ st.exit <= ExitTolerance => st.raised = st.bodyExc

\* C10: whenever get_process_stream has been left, by return or by any
\* exception, its transport is released: the SSH client is closed, the
\* pipes of the subprocess are closed and the subprocess does not run.
C10_TransportReleased ==
    st.phase = "exited" =>
        /\ st.client # "open"
        /\ st.out # "open"
        /\ st.err # "open"
        /\ st.proc # "running"
        /\ (st.mode = "remote" /\ st.raised # "SSHException") => st.client = "closed"
        /\ (st.mode = "local" /\ st.raised # "none") => st.proc \in {"exited", "terminated"}

C10_Witness ==
    /\ st.phase = "exited"
    /\ st.mode = "remote"
    /\ st.bodyExc = "BodyError"
    /\ st.raised = "BodyError"
    /\ st.client = "closed"
    /\ st.out = "closed"

\* C11: two invocations of wrds_update that run at the same time for
\* different tables each end as they end when run alone on the database as
\* it was before, whatever the interleaving of their statements.
C11_ConcurrentIndependent ==
    \A i \in {1, 2} :
        inv[i].pc = "done" =>
            LET alone == RunAlone(catalog0, Called(inv[i].create_roles), i)
            IN  inv[i].result = alone.result /\ inv[i].exc = alone.exc

\* C12: code_row_dict answers every row, and with the first of these that
\* applies: character storage text; a datetime format timestamp; a time
\* format time; a date format date; format BEST float; decimals float; a
\* width without decimals integer; neither float.  A numeric row is never
\* answered with the fallback text.
C12_FirstMatch ==
    (call.fn = "code_row_dict" /\ ret.done) =>
        LET row == call.row
            fmt == Strip(row.format)
            numeric == IntOrZero(row.type) # 2
            datetime == SearchI(<<"d", "a", "t", "e", "t", "i", "m", "e">>, fmt)
            time == SearchI(<<"t", "i", "m", "e">>, fmt) \/ Upper(fmt) = <<"T", "O", "D">>
            date == \/ SearchI(<<"d", "a", "t", "e">>, fmt)
                    \/ SearchI(<<"y", "y", "m", "m", "d", "d">>, fmt)
                    \/ SearchI(<<"m", "m", "d", "d", "y", "y">>, fmt)
            best == Upper(fmt) = <<"B", "E", "S", "T">>
            decimals == IntOrZero(row.formatd) # 0
            width == IntOrZero(row.formatl) # 0
        IN  /\ ret.value \in {"text", "timestamp", "time", "date", "float8", "integer"}
            /\ ~numeric => ret.value = "text"
            /\ numeric => ret.value # "text"
            /\ (numeric /\ datetime) => ret.value = "timestamp"
            /\ (numeric /\ ~datetime /\ time) => ret.value = "time"
            /\ (numeric /\ ~datetime /\ ~time /\ date) => ret.value = "date"
            /\ (numeric /\ ~datetime /\ ~time /\ ~date /\ best) => ret.value = "float8"
            /\ (numeric /\ ~datetime /\ ~time /\ ~date /\ ~best /\ decimals)
                  => ret.value = "float8"
            /\ (numeric /\ ~datetime /\ ~time /\ ~date /\ ~best /\ ~decimals /\ width)
                  => ret.value = "integer"
            /\ (numeric /\ ~datetime /\ ~time /\ ~date /\ ~best /\ ~decimals /\ ~width)
                  => ret.value = "float8"

C12_Witness ==
    /\ call.fn = "code_row_dict"
    /\ ret.done
    /\ call.row.type = "1"
    /\ call.row.format = <<"D", "A", "T", "E", "T", "I", "M", "E">>
    /\ ret.value = "timestamp"

\* C13: the names get_table_metadata and get_table_sql return are the
\* lowercased column names of the report, one per row and in the order of
\* the rows, whatever col_types holds.
C13_NamesInReportOrder ==
    (call.fn \in {"get_table_metadata", "get_table_sql"} /\ ret.done) =>
        /\ Len(ret.value.names) = Len(call.rows)
        /\ \A i \in 1..Len(call.rows) : ret.value.names[i] = Lower(call.rows[i].name)

C13_Witness ==
    /\ call.fn = "get_table_metadata"
    /\ ret.done
    /\ Len(call.rows) = 2
    /\ call.col_types = << <<<<"z", "z">>, "text">>, <<<<"R", "e", "t">>, "numeric">> >>
    /\ ret.value.names = << <<"n", "a", "m", "e">>, <<"i", "d">> >>
    /\ ret.value.col_types[<<"z", "z">>] = "text"

\* C14: get_modified_csv after set_modified_csv(file, m) gives m back, for
\* every well-formed marker m and every time zone of the host.
C14_MarkerRoundTrip ==
    (call.fn = "set_modified_csv" /\ ret.done) => ret.value = call.last_modified

\* C15: when wrds_update_pq returns True the Parquet file at the target
\* path exists, is complete, and carries last_modified equal to the remote
\* marker of this invocation, also when the export holds no data row.
C15_MarkerInParquet ==
    (kind = "pq" /\ pc = "done" /\ result = "True") =>
        /\ pqFile.exists
        /\ pqFile.closed
        /\ get_modified_pq(pqFile) = modified

\* C16: the intermediate data set of the script is named schema+table_name
\* when that has at most 32 characters, and by its first 32 characters when
\* it has more.
C16_NameCutAt32 ==
    (call.fn = "get_wrds_sas" /\ ret.done /\ Len(ret.value) > 1) =>
        LET whole == call.args.schema \o call.args.table_name
            name == ret.value[1].data.name
        IN  /\ Len(whole) <= 32 => name = whole
            /\ Len(whole) > 32 =>
                    (Len(name) = 32 /\ \A i \in 1..32 : name[i] = whole[i])
            /\ ret.value[2].data.name = name
            /\ ret.value[3].data.name = name

C16_Witness ==
    /\ call.fn = "get_wrds_sas"
    /\ ret.done
    /\ Len(call.args.schema) = 5
    /\ Len(call.args.table_name) = 28
    /\ Len(ret.value[1].data.name) = 32
    /\ ret.value[1].data.name[32] = "A"

\* C20: called with no directive but rename, get_wrds_sas writes a script
\* that exports the source data set itself with PROC EXPORT and makes no
\* intermediate data set.
C20_SimplePath ==
    (/\ call.fn = "get_wrds_sas"
     /\ ret.done
     /\ ~call.args.fix_missing
     /\ ~call.args.fix_cr
     /\ call.args.drop = ""
     /\ call.args.keep = ""
     /\ call.args.obs = 0
     /\ call.args.where = ""
     /\ call.args.col_types = <<>>)
        => /\ Len(ret.value) = 1
           /\ ret.value[1].proc = "export"
           /\ ret.value[1].data = [lib |-> call.args.schema, name |-> call.args.table_name]

\* C17: an orchestrator called with a required configuration value missing
\* (the remote credential; the database host and name; the data directory)
\* raises the configuration error at once: the call opens no session, issues
\* no statement, and makes no directory or file.
C17_ConfigurationErrorFirst ==
    [][(/\ pc = "idle"
        /\ pc' # "idle"
        /\ kind \in Sinks
        /\ (~has_wrds_id' \/ ~has_target'))
          => /\ pc' = "done"
             /\ result' = "raised"
             /\ exc' = "ValueError"
             /\ ops' = <<>>
             /\ st' = IdleStream
             /\ UNCHANGED sinks]_vars

C17_Witness ==
    /\ kind = "pg"
    /\ has_wrds_id
    /\ ~has_target
    /\ pc = "done"
    /\ exc = "ValueError"
    /\ ops = <<>>

\* a step of the invocation has failed: a session did not start, could not
\* be written to, ended with an exception or gave a report that cannot be
\* parsed, or the transcode raised
Failed ==
    \/ st.raised # "none"
    \/ st.bodyExc # "none"
    \/ pending # "none"
    \/ result = "raised"
    \/ /\ pc \in {"pg_meta", "pq_meta", "pg_sql", "pq_sql", "csv_sql"}
       /\ st.phase = "exited"
       /\ MetadataError(metaRows) # "none"

\* what a scope does on its way out: the session is closed, the Parquet
\* writer is closed, the temporary file is removed
CleanupOps ==
    {<<"close", p>> : p \in {"proc_contents", "get_table_metadata", "get_table_sql", "export"}}
        \cup {<<"parquet", "close">>, <<"file", "remove">>, <<"file", "remove OSError">>}

\* C18: once a step of a sync invocation has failed, the invocation only
\* unwinds: every later step keeps the failure, issues nothing but the
\* cleanup of the scopes it leaves, issues no operation a second time, and
\* the invocation ends by raising.
C18_FailureTerminal ==
    [][(/\ kind \in Sinks
        /\ pc \notin {"idle", "done"}
        /\ Failed)
          => LET new == {ops'[i] : i \in (Len(ops) + 1)..Len(ops')}
                 old == {ops[i] : i \in 1..Len(ops)}
             IN  /\ Failed'
                 /\ pc' \in {pc, "pq_close", "pq_cleanup", "done"}
                 /\ Len(ops') >= Len(ops)
                 /\ SubSeq(ops', 1, Len(ops)) = ops
                 /\ new \subseteq CleanupOps
                 /\ new \cap old = {}
                 /\ pc' = "done" => result' = "raised"]_vars

C18_Witness ==
    /\ kind = "pq"
    /\ pc = "done"
    /\ result = "raised"
    /\ exc = "ArrowInvalid"
    /\ written = 1
    /\ ops[Len(ops) - 1] = <<"parquet", "close">>
    /\ ops[Len(ops)] = <<"file", "remove">>

\* C19: in a database sync that returned True the statements were issued in
\* this order: the read of the table comment, CREATE SCHEMA where the schema
\* was missing, DROP TABLE, CREATE TABLE, SET DateStyle, SET TimeZone, COPY,
\* the comment with the marker, and then the ownership and SELECT grants
\* on the table.
C19_StatementOrder ==
    (kind = "pg" /\ pc = "done" /\ result = "True") =>
        LET Before(a, b) == \A i \in Positions({a}), j \in Positions({b}) : i < j
        IN  /\ Positions({MarkerRead}) = {1}
            /\ pg.schema
            /\ Before(MarkerRead, <<"sql", "CREATE SCHEMA">>)
            /\ Before(<<"sql", "CREATE SCHEMA">>, <<"sql", "DROP TABLE">>)
            /\ Before(<<"sql", "DROP TABLE">>, <<"sql", "CREATE TABLE">>)
            /\ Before(<<"sql", "CREATE TABLE">>, <<"sql", "SET DateStyle">>)
            /\ Before(<<"sql", "SET DateStyle">>, <<"sql", "SET TimeZone">>)
            /\ Before(<<"sql", "SET TimeZone">>, <<"sql", "COPY">>)
            /\ Before(<<"sql", "COPY">>, <<"marker", "write">>)
            /\ Before(<<"marker", "write">>, <<"sql", "ALTER TABLE OWNER">>)
            /\ Before(<<"marker", "write">>, <<"sql", "GRANT SELECT">>)
            /\ Count({<<"sql", "COPY">>}) = 1
            /\ Count({<<"marker", "write">>}) = 1

\* C21: when the col_types of a sync (wrds_update, wrds_update_pq) force a
\* column of the data set to bigint, the data step of the export script of
\* that sync converts the column with putn into a text column that takes
\* its place.
C21_BigintNotScientific ==
    (call.fn \in {"wrds_to_pg", "wrds_update_pq"} /\ ret.done) =>
        \A j \in 1..Len(call.args.col_types) :
            LET k == Lower(call.args.col_types[j][1])
            IN  (/\ call.args.col_types[j][2] = "bigint"
                 /\ \E i \in 1..Len(ret.value.names) : ret.value.names[i] = k)
                    => /\ Len(ret.value.script) = 3
                       /\ \E i \in 1..Len(ret.value.script[1].bigints) :
                              ret.value.script[1].bigints[i] = k

\* C30: within one sync, for every column, the type by which the export
\* script chose the column's format (date, time, timestamp, bigint, or any
\* other) is the type the sink's layout gives the column, overridden
\* columns included.
C30_OneTypePerColumn ==
    (call.fn \in {"wrds_to_pg", "wrds_update_pq"} /\ ret.done) =>
        LET script == ret.value.script
            In(seq, n) == \E i \in 1..Len(seq) : seq[i] = n
            Kind(t) == IF t \in {"date", "time", "timestamp", "bigint"} THEN t ELSE "other"
            Exported(n) == IF In(script[1].bigints, n) THEN "bigint"
                           ELSE IF In(script[2].dates, n) THEN "date"
                           ELSE IF In(script[2].times, n) THEN "time"
                           ELSE IF In(script[2].timestamps, n) THEN "timestamp"
                           ELSE IF In(script[2].unformat, n) THEN "other"
                           ELSE "none"
        IN  /\ Len(script) = 3
            /\ \A i \in 1..Len(ret.value.names) :
                    Exported(ret.value.names[i]) = Kind(ret.value.col_types[ret.value.names[i]])

\* C22 as stated: in the transform-path script every column of the type map
\* has exactly one format directive in PROC DATASETS: YYMMDD10. for a date,
\* TIME8. for a time, E8601DT19. for a timestamp, format=; for any other
\* type.
C22_OneFormatPerColumn ==
    (call.fn = "get_wrds_sas" /\ ret.done /\ Len(ret.value) = 3) =>
        LET col_types == get_table_sql(call.rows, call.args.col_types).col_types
            step == ret.value[2]
            Times(seq, k) == Cardinality({i \in 1..Len(seq) : seq[i] = k})
        IN  \A k \in DOMAIN col_types :
                /\ Times(step.dates, k) = (IF col_types[k] = "date" THEN 1 ELSE 0)
                /\ Times(step.times, k) = (IF col_types[k] = "time" THEN 1 ELSE 0)
                /\ Times(step.timestamps, k) = (IF col_types[k] = "timestamp" THEN 1 ELSE 0)
                /\ Times(step.unformat, k) =
                      (IF col_types[k] \in {"date", "time", "timestamp"} THEN 0 ELSE 1)

\* C22: in the transform-path script every column of the type map other
\* than a bigint has exactly one format directive in PROC DATASETS:
\* YYMMDD10. for a date, TIME8. for a time, E8601DT19. for a timestamp,
\* format=; for any other type.  A bigint column has none: the data step
\* has replaced it with a text column.
C22_OneFormatPerColumnButBigint ==
    (call.fn = "get_wrds_sas" /\ ret.done /\ Len(ret.value) = 3) =>
        LET col_types == get_table_sql(call.rows, call.args.col_types).col_types
            step == ret.value[2]
            Times(seq, k) == Cardinality({i \in 1..Len(seq) : seq[i] = k})
        IN  \A k \in DOMAIN col_types :
                /\ Times(step.dates, k) = (IF col_types[k] = "date" THEN 1 ELSE 0)
                /\ Times(step.times, k) = (IF col_types[k] = "time" THEN 1 ELSE 0)
                /\ Times(step.timestamps, k) = (IF col_types[k] = "timestamp" THEN 1 ELSE 0)
                /\ Times(step.unformat, k) =
                      (IF col_types[k] \in {"date", "time", "timestamp", "bigint"} THEN 0 ELSE 1)
                /\ Times(ret.value[1].bigints, k) = (IF col_types[k] = "bigint" THEN 1 ELSE 0)

C22_Witness ==
    /\ call.fn = "get_wrds_sas"
    /\ ret.done
    /\ Len(ret.value) = 3
    /\ ret.value[1].bigints = << <<"i", "d">> >>
    /\ ret.value[2].unformat = <<>>
    /\ ret.value[2].dates = << <<"d">> >>

\* C23: in what get_table_metadata and get_table_sql return, the type of
\* every column name n of names is the value of the col_types key whose
\* lowercase form is n, where there is one, whatever type was inferred, and
\* otherwise the type inferred from the column's row.
C23_OverrideByLowercaseName ==
    (call.fn \in {"get_table_metadata", "get_table_sql"} /\ ret.done) =>
        \A i \in 1..Len(ret.value.names) :
            LET n == ret.value.names[i]
                over == {j \in 1..Len(call.col_types) : Lower(call.col_types[j][1]) = n}
            IN  /\ n \in DOMAIN ret.value.col_types
                /\ \A j \in over : ret.value.col_types[n] = call.col_types[j][2]
                /\ over = {} => ret.value.col_types[n] = code_row_dict(call.rows[i])

C23_Witness ==
    /\ call.fn = "get_table_metadata"
    /\ ret.done
    /\ call.col_types = << <<<<"N", "A", "M", "E">>, "varchar">> >>
    /\ Len(ret.value.names) = 2
    /\ ret.value.names[2] = <<"n", "a", "m", "e">>
    /\ code_row_dict(call.rows[2]) = "text"
    /\ ret.value.col_types[<<"n", "a", "m", "e">>] = "varchar"
    /\ ret.value.col_types[ret.value.names[1]] = code_row_dict(call.rows[1])

\* C24: get_modified_str returns None for an empty report and for a report
\* with no line that begins with "Last Modified"; otherwise it returns
\* "Last modified: " and the value of the last such line, followed by the
\* stripped text of the line after that line if and only if there is one
\* and it does not contain "Protection".
C24_LastModifiedLine ==
    (call.fn = "get_modified_str" /\ ret.done) =>
        LET c == call.contents
            begins == {i \in 1..Len(c) : c[i].lastmod /\ ~c[i].indent}
            last == CHOOSE i \in begins : \A j \in begins : j <= i
        IN  IF begins = {}
            THEN ret.value = None
            ELSE /\ ~ret.value.isNone
                 /\ ret.value.pre = "Last modified: "
                 /\ ret.value.ts = c[last].ts
                 /\ ret.value.cont = (IF last < Len(c) /\ ~c[last + 1].prot
                                      THEN <<c[last + 1].txt>> ELSE <<>>)

C27_OneTransportByArguments ==
    (kind = "stream" /\ pc \in {"use", "done"}) =>
        LET entered == st.phase # "enter"
        IN  /\ ~(st.proc # "none" /\ st.client # "none")
            /\ Count(OpenOf({"sas_to_pandas"})) <= 1
            /\ has_fpath =>
                  /\ st.client = "none"
                  /\ entered => st.proc # "none"
            /\ (~has_fpath /\ has_wrds_id) =>
                  /\ st.proc = "none"
                  /\ entered => st.client # "none"
            /\ (~has_fpath /\ ~has_wrds_id) =>
                  /\ st.proc = "none"
                  /\ st.client = "none"
                  /\ st.out = "none"
                  /\ ops = <<>>
                  /\ entered => (st.phase = "exited" /\ st.raised = "ValueError")
                  /\ pc = "done" => (result = "raised" /\ exc = "ValueError")

C27_Witness ==
    /\ kind = "stream"
    /\ pc = "done"
    /\ has_fpath
    /\ has_wrds_id
    /\ st.mode = "local"
    /\ st.proc = "exited"
    /\ st.client = "none"
    /\ result = "True"

\* C28: whenever wrds_update has ended by raising, the comment of the table
\* differs from the remote marker of that invocation (so that the next
\* invocation, unforced and with the marker unchanged, fetches again).
C28_RaisedLeavesStaleComment ==
    (kind = "pg" /\ pc = "done" /\ result = "raised") =>
        get_table_comment(pg) # modified

\* C29: with create_roles set, an invocation issues an ALTER ... OWNER TO
\* the owner role or a GRANT ... TO the access role only after it has itself
\* found that role to exist or created it, whether or not the schema was
\* there when it began.
C29_RoleEnsuredBeforeUse ==
    \A i \in {1, 2} :
        /\ inv[i].pc \in {"schema_owner", "table_owner", "upd_table_owner"}
              => "owner" \in inv[i].ensured
        /\ inv[i].pc \in {"grant_usage", "table_grant", "upd_table_grant"}
              => "access" \in inv[i].ensured

====
